---- MODULE Spec2Model ----
(***************************************************************************)
(* Huffman compressor / decompressor of assignment2: huff-compress.py      *)
(* (tokenize, calc_probabilites, build_tree, make_lut, compress over an    *)
(* OutputBitstream) and huff-decompress.py (decompress over an             *)
(* InputBitstream).                                                        *)
(*                                                                         *)
(* Text is a sequence of code points, a token is a Python str (a sequence  *)
(* of code points) or the pseudo eof symbol, bits are 0/1, the files are   *)
(* sequences of bytes.  Python positions are 0 based: str[i] is written    *)
(* At(str, i) and str[a:b] is written Slice(str, a, b).                    *)
(***************************************************************************)
EXTENDS Integers, Sequences, FiniteSets, TLC

VARIABLES
    pc,            \* position of the run
    input,         \* text read from infile
    symbolmodel,   \* "char" or "word"
    tokens,        \* tokenize's result
    token_probs,   \* calc_probabilites' result (list of OrderBy)
    huffman_tree,  \* build_tree's result, pickled and loaded again
    lut,           \* make_lut's result
    next_token,    \* compress: 0 based index of the token the loop is at
    buffer,        \* OutputBitstream.buffer (pending bits)
    file,          \* bytes of the compressed file
    rd_buffer,     \* InputBitstream.buffer (bytes not yet unpacked)
    bit_buffer,    \* InputBitstream.bit_buffer
    outfile,       \* text written to the decompressed file
    sent,          \* every bit handed to write / write_eof so far, in order
    readback       \* every bit InputBitstream.popleft returned so far

vars == <<pc, input, symbolmodel, tokens, token_probs, huffman_tree, lut,
          next_token, buffer, file, rd_buffer, bit_buffer, outfile, sent,
          readback>>

----------------------------------------------------------------------------
(* Bounds of the model *)

\* longest input text
MaxLen == 5

\* most bits handed to an OutputBitstream in the bitstream specification
MaxBits == 10

\* most bits handed to one write call in the bitstream specification
MaxChunk == 3

\* code points of the input alphabet: "a", "Z", " ", "!" (two that match
\* [a-zA-Z] and two that do not)
Alphabet == {97, 90, 32, 33}

----------------------------------------------------------------------------
(* Python helpers *)

EOF_SYMBOL == -1

\* The pseudo eof token.  A str token is a sequence of code points >= 0, so
\* the one element sequence holding EOF_SYMBOL is no str, as the integer -1
\* is no str in the source.
EofToken == <<EOF_SYMBOL>>

At(s, i) == s[i + 1]

Slice(s, a, b) == SubSeq(s, a + 1, b)

RECURSIVE Join(_)
\* ''.join(list of str)
Join(ts) == IF ts = <<>> THEN <<>> ELSE Head(ts) \o Join(Tail(ts))

\* list(str): one single character str per character
ListOfStr(s) == [i \in 1..Len(s) |-> <<s[i]>>]

Zeros(n) == [i \in 1..n |-> 0]

----------------------------------------------------------------------------
(* OutputBitstream *)

RECURSIVE PackByte(_, _)
\* for bit in byte_bits: byte = (byte << 1 | bit)
PackByte(byte, byte_bits) ==
    IF byte_bits = <<>> THEN byte
    ELSE PackByte(byte * 2 + Head(byte_bits), Tail(byte_bits))

RECURSIVE flush(_, _)
\* OutputBitstream.flush: every complete group of 8 pending bits is written
\* as one byte; the rest stays pending.
flush(buf, f) ==
    IF Len(buf) >= 8
    THEN flush(SubSeq(buf, 9, Len(buf)), Append(f, PackByte(0, SubSeq(buf, 1, 8))))
    ELSE [buffer |-> buf, file |-> f]

\* write with the new bits put in front of the pending ones
write_prepend(buf, f, bits) == flush(bits \o buf, f)

\* OutputBitstream.write
write(buf, f, bits) == flush(buf \o bits, f)

\* write_eof without the padding
write_eof_unpadded(buf, f, bits) == flush(buf \o bits, f)

\* OutputBitstream.write_eof
write_eof(buf, f, bits) ==
    LET extended == buf \o bits
        padding_required == Len(extended) % 8
    IN  IF padding_required # 0
        THEN flush(extended \o Zeros(padding_required), f)
        ELSE flush(extended, f)

----------------------------------------------------------------------------
(* InputBitstream *)

\* buffer_up's inner loop: the bits of one byte, low bit first, reversed
UnpackByte(byte) == [i \in 1..8 |-> (byte \div (2 ^ (8 - i))) % 2]

RECURSIVE buffer_up(_, _, _)
\* buffer_up that hands out a zero byte where the source is exhausted
buffer_up_zero_fill(bytes, bits, n) ==
    IF Len(bits) < n
    THEN IF bytes = <<>>
         THEN buffer_up(bytes, bits \o Zeros(8), n)
         ELSE buffer_up(Tail(bytes), bits \o UnpackByte(Head(bytes)), n)
    ELSE [raised |-> FALSE, buffer |-> bytes, bit_buffer |-> bits]

\* InputBitstream.buffer_up: raised is deque.popleft's IndexError
buffer_up(bytes, bits, n) ==
    IF Len(bits) < n
    THEN IF bytes = <<>>
         THEN [raised |-> TRUE, buffer |-> bytes, bit_buffer |-> bits]
         ELSE buffer_up(Tail(bytes), bits \o UnpackByte(Head(bytes)), n)
    ELSE [raised |-> FALSE, buffer |-> bytes, bit_buffer |-> bits]

\* InputBitstream.popleft
popleft(bytes, bits) ==
    LET up == IF Len(bits) = 0 THEN buffer_up(bytes, bits, 1)
              ELSE [raised |-> FALSE, buffer |-> bytes, bit_buffer |-> bits]
    IN  IF up.raised
        THEN [raised |-> TRUE, bit |-> 0, buffer |-> up.buffer,
              bit_buffer |-> up.bit_buffer]
        ELSE [raised |-> FALSE, bit |-> Head(up.bit_buffer),
              buffer |-> up.buffer, bit_buffer |-> Tail(up.bit_buffer)]

----------------------------------------------------------------------------
(* Tokenizer *)

\* the character class [a-zA-Z]
IsAlpha(c) == c \in (65..90) \cup (97..122)

RECURSIVE RunEnd(_, _)
\* end (exclusive) of the greedy match of [a-zA-Z]+ that starts at start
RunEnd(str, start) ==
    IF start < Len(str) /\ IsAlpha(At(str, start))
    THEN RunEnd(str, start + 1)
    ELSE start

RECURSIVE word_re_search(_, _)
\* word_re.search(str, offset): the leftmost match at or after offset
word_re_search(str, offset) ==
    IF offset >= Len(str) THEN [found |-> FALSE, start |-> 0, end |-> 0]
    ELSE IF IsAlpha(At(str, offset))
         THEN [found |-> TRUE, start |-> offset, end |-> RunEnd(str, offset)]
         ELSE word_re_search(str, offset + 1)

RECURSIVE word_tokenize_loop(_, _, _)
\* word_tokenize's loop without tokens.extend(list(pre_word))
word_tokenize_loop_no_pre_word(str, offset, toks) ==
    IF offset < Len(str)
    THEN LET word == word_re_search(str, offset)
         IN  IF word.found
             THEN word_tokenize_loop(str, word.end,
                      Append(toks, Slice(str, word.start, word.end)))
             ELSE word_tokenize_loop(str, Len(str),
                      toks \o ListOfStr(Slice(str, offset, Len(str))))
    ELSE toks

\* the while loop of word_tokenize
word_tokenize_loop(str, offset, toks) ==
    IF offset < Len(str)
    THEN LET word == word_re_search(str, offset)
         IN  IF word.found
             THEN word_tokenize_loop(str, word.end,
                      Append(toks \o ListOfStr(Slice(str, offset, word.start)),
                             Slice(str, word.start, word.end)))
             ELSE word_tokenize_loop(str, Len(str),
                      toks \o ListOfStr(Slice(str, offset, Len(str))))
    ELSE toks

word_tokenize(str) == word_tokenize_loop(str, 0, <<>>)

tokenize(text, model) ==
    Append(IF model = "word" THEN word_tokenize(text) ELSE ListOfStr(text),
           EofToken)

----------------------------------------------------------------------------
(* FrequencyModel *)

HNodeLeaf(value) == [value |-> value]

HNode(left, right) == [left |-> left, right |-> right]

IsLeaf(node) == "value" \in DOMAIN node

\* OrderBy: a node with its probability.  Every probability of one run is
\* count / total_token_count or a sum of such, so p holds the numerator over
\* the common denominator total_token_count; < and + on p are those of the
\* numerators.  (The floats of the source order the same way: run on every
\* text of these bounds, the source builds the tree built here.)
OrderBy(value, p) == [value |-> value, p |-> p]

\* __lt__ with the comparison turned around
Lt_greater(a, b) == a.p > b.p

\* OrderBy.__lt__
Lt(a, b) == a.p < b.p

RECURSIVE count_tokens(_, _)
\* the counting loop of calc_probabilites: unique_tokens as the list of its
\* items, in insertion order (the order dict.items() yields them)
count_tokens(toks, unique_tokens) ==
    IF toks = <<>> THEN unique_tokens
    ELSE LET token == Head(toks)
             seen == {i \in 1..Len(unique_tokens) : unique_tokens[i].token = token}
         IN  IF seen = {}
             THEN count_tokens(Tail(toks),
                      Append(unique_tokens, [token |-> token, count |-> 1]))
             ELSE count_tokens(Tail(toks),
                      [i \in 1..Len(unique_tokens) |->
                          IF i \in seen
                          THEN [token |-> token, count |-> unique_tokens[i].count + 1]
                          ELSE unique_tokens[i]])

calc_probabilites(toks) ==
    LET unique_tokens == count_tokens(toks, <<>>)
    IN  [i \in 1..Len(unique_tokens) |->
            OrderBy(HNodeLeaf(unique_tokens[i].token), unique_tokens[i].count)]

----------------------------------------------------------------------------
(* TreeBuilder: heapq on a Python list, positions 0 based *)

SetAt(s, i, v) == [s EXCEPT ![i + 1] = v]

RECURSIVE siftdown_loop(_, _, _, _)
siftdown_loop(heap, startpos, pos, newitem) ==
    IF pos > startpos
    THEN LET parentpos == (pos - 1) \div 2
             parent == At(heap, parentpos)
         IN  IF Lt(newitem, parent)
             THEN siftdown_loop(SetAt(heap, pos, parent), startpos, parentpos, newitem)
             ELSE SetAt(heap, pos, newitem)
    ELSE SetAt(heap, pos, newitem)

\* heapq._siftdown
siftdown(heap, startpos, pos) == siftdown_loop(heap, startpos, pos, At(heap, pos))

RECURSIVE siftup_loop(_, _, _)
siftup_loop(heap, pos, childpos) ==
    IF childpos < Len(heap)
    THEN LET rightpos == childpos + 1
             smaller == IF rightpos < Len(heap)
                           /\ ~Lt(At(heap, childpos), At(heap, rightpos))
                        THEN rightpos ELSE childpos
         IN  siftup_loop(SetAt(heap, pos, At(heap, smaller)), smaller, 2 * smaller + 1)
    ELSE [heap |-> heap, pos |-> pos]

\* heapq._siftup
siftup(heap, pos) ==
    LET newitem == At(heap, pos)
        bubbled == siftup_loop(heap, pos, 2 * pos + 1)
    IN  siftdown(SetAt(bubbled.heap, bubbled.pos, newitem), pos, bubbled.pos)

RECURSIVE heapify_loop(_, _)
heapify_loop(x, i) == IF i < 0 THEN x ELSE heapify_loop(siftup(x, i), i - 1)

\* heapq.heapify
heapify(x) == heapify_loop(x, (Len(x) \div 2) - 1)

\* heapq.heappop
heappop(heap) ==
    LET lastelt == heap[Len(heap)]
        rest == SubSeq(heap, 1, Len(heap) - 1)
    IN  IF rest # <<>>
        THEN [item |-> rest[1], heap |-> siftup(SetAt(rest, 0, lastelt), 0)]
        ELSE [item |-> lastelt, heap |-> rest]

\* heapq.heappush
heappush(heap, item) == siftdown(Append(heap, item), 0, Len(heap))

RECURSIVE build_tree_loop(_)
\* build_tree's loop with l.value for both children of the new node
build_tree_loop_left_twice(heap) ==
    IF Len(heap) > 1
    THEN LET first == heappop(heap)
             second == heappop(first.heap)
             l == first.item
             r == second.item
         IN  build_tree_loop(heappush(second.heap,
                 OrderBy(HNode(l.value, l.value), l.p + r.p)))
    ELSE heap

\* the while loop of build_tree
build_tree_loop(heap) ==
    IF Len(heap) > 1
    THEN LET first == heappop(heap)
             second == heappop(first.heap)
             l == first.item
             r == second.item
         IN  build_tree_loop(heappush(second.heap,
                 OrderBy(HNode(l.value, r.value), l.p + r.p)))
    ELSE heap

build_tree(probs) == build_tree_loop(heapify(probs))[1].value

----------------------------------------------------------------------------
(* CodeTable *)

EmptyLut == [t \in {} |-> <<>>]

RECURSIVE make_lut(_, _, _)
\* make_lut with a 0 appended for the right child too
make_lut_right_zero(node, bits, table) ==
    IF IsLeaf(node)
    THEN [t \in DOMAIN table \cup {node.value} |->
             IF t = node.value THEN bits ELSE table[t]]
    ELSE LET l_bits == Append(bits, 0)
             r_bits == Append(bits, 0)
         IN  make_lut(node.right, r_bits, make_lut(node.left, l_bits, table))

\* HNodeLeaf.make_lut and HNode.make_lut: the one dict is handed down and
\* written at every leaf, a later leaf overwriting an earlier equal key
make_lut(node, bits, table) ==
    IF IsLeaf(node)
    THEN [t \in DOMAIN table \cup {node.value} |->
             IF t = node.value THEN bits ELSE table[t]]
    ELSE LET l_bits == Append(bits, 0)
             r_bits == Append(bits, 1)
         IN  make_lut(node.right, r_bits, make_lut(node.left, l_bits, table))

----------------------------------------------------------------------------
(* Decoder *)

RECURSIVE decode(_, _, _)
\* decode with the two branches exchanged
decode_swapped(node, bytes, bits) ==
    IF IsLeaf(node)
    THEN [raised |-> FALSE, value |-> node.value, buffer |-> bytes,
          bit_buffer |-> bits]
    ELSE LET got == popleft(bytes, bits)
         IN  IF got.raised
             THEN [raised |-> TRUE, value |-> <<>>, buffer |-> got.buffer,
                   bit_buffer |-> got.bit_buffer]
             ELSE decode(IF got.bit = 0 THEN node.right ELSE node.left,
                         got.buffer, got.bit_buffer)

\* HNode.decode and HNodeLeaf.decode on an InputBitstream; raised is the
\* IndexError of a popleft on the exhausted stream, which ends the descent
decode(node, bytes, bits) ==
    IF IsLeaf(node)
    THEN [raised |-> FALSE, value |-> node.value, buffer |-> bytes,
          bit_buffer |-> bits]
    ELSE LET got == popleft(bytes, bits)
         IN  IF got.raised
             THEN [raised |-> TRUE, value |-> <<>>, buffer |-> got.buffer,
                   bit_buffer |-> got.bit_buffer]
             ELSE decode(IF got.bit = 0 THEN node.left ELSE node.right,
                         got.buffer, got.bit_buffer)

----------------------------------------------------------------------------
(* One run of huff-compress.py followed by one run of huff-decompress.py   *)
(* on its two output files.                                                *)

RECURSIVE SeqsUpTo(_, _)
\* the sequences over S of length at most n
SeqsUpTo(S, n) ==
    IF n = 0 THEN {<<>>}
    ELSE LET shorter == SeqsUpTo(S, n - 1)
         IN  shorter \cup {Append(s, x) : s \in {t \in shorter : Len(t) = n - 1}, x \in S}

\* the texts file.read() may return
Texts == SeqsUpTo(Alphabet, MaxLen)

\* Without -s, args.symbolmodel is None and tokenize takes the branch it
\* takes for "char".

Init ==
    /\ pc = "tokenize"
    /\ input \in Texts
    /\ symbolmodel \in {"char", "word"}
    /\ tokens = <<>>
    /\ token_probs = <<>>
    /\ huffman_tree = <<>>
    /\ lut = EmptyLut
    /\ next_token = 0
    /\ buffer = <<>>
    /\ file = <<>>
    /\ rd_buffer = <<>>
    /\ bit_buffer = <<>>
    /\ outfile = <<>>
    /\ sent = <<>>
    /\ readback = <<>>

\* tokens = tokenize(infile, args.symbolmodel)
Tokenize ==
    /\ pc = "tokenize"
    /\ tokens' = tokenize(input, symbolmodel)
    /\ pc' = "calc_probabilites"
    /\ UNCHANGED <<input, symbolmodel, token_probs, huffman_tree, lut, next_token,
                   buffer, file, rd_buffer, bit_buffer, outfile, sent, readback>>

\* token_probs = calc_probabilites(tokens)
CalcProbabilites ==
    /\ pc = "calc_probabilites"
    /\ token_probs' = calc_probabilites(tokens)
    /\ pc' = "build_tree"
    /\ UNCHANGED <<input, symbolmodel, tokens, huffman_tree, lut, next_token,
                   buffer, file, rd_buffer, bit_buffer, outfile, sent, readback>>

\* huffman_tree = build_tree(token_probs); the heap is token_probs itself
BuildTree ==
    /\ pc = "build_tree"
    /\ token_probs' = build_tree_loop(heapify(token_probs))
    /\ huffman_tree' = build_tree(token_probs)
    /\ pc' = "compress"
    /\ UNCHANGED <<input, symbolmodel, tokens, lut, next_token,
                   buffer, file, rd_buffer, bit_buffer, outfile, sent, readback>>

\* compress, up to its loop: the output file is opened (and truncated), the
\* OutputBitstream is made and the code table is built
CompressOpen ==
    /\ pc = "compress"
    /\ file' = <<>>
    /\ buffer' = <<>>
    /\ lut' = make_lut(huffman_tree, <<>>, EmptyLut)
    /\ next_token' = 0
    /\ pc' = "compress_loop"
    /\ UNCHANGED <<input, symbolmodel, tokens, token_probs, huffman_tree,
                   rd_buffer, bit_buffer, outfile, sent, readback>>

\* one iteration of compress's loop; after the last token the file is closed
CompressToken ==
    /\ pc = "compress_loop"
    /\ next_token < Len(tokens)
    /\ LET token == At(tokens, next_token)
           wrote == IF token = EofToken
                    THEN write_eof(buffer, file, lut[token])
                    ELSE write(buffer, file, lut[token])
       IN  /\ buffer' = wrote.buffer
           /\ file' = wrote.file
    /\ next_token' = next_token + 1
    /\ pc' = IF next_token + 1 = Len(tokens) THEN "compressed" ELSE "compress_loop"
    /\ UNCHANGED <<input, symbolmodel, tokens, token_probs, huffman_tree, lut,
                   rd_buffer, bit_buffer, outfile, sent, readback>>

\* decompress, up to its loop: the output file is opened and the
\* InputBitstream takes every byte of the compressed file
DecompressOpen ==
    /\ pc = "compressed"
    /\ rd_buffer' = file
    /\ bit_buffer' = <<>>
    /\ outfile' = <<>>
    /\ pc' = "decompress_loop"
    /\ UNCHANGED <<input, symbolmodel, tokens, token_probs, huffman_tree, lut,
                   next_token, buffer, file, sent, readback>>

\* one iteration of decompress's loop: "done" is the break at the pseudo
\* eof, "failed" is the IndexError leaving decompress
DecompressToken ==
    /\ pc = "decompress_loop"
    /\ LET got == decode(huffman_tree, rd_buffer, bit_buffer)
       IN  /\ rd_buffer' = got.buffer
           /\ bit_buffer' = got.bit_buffer
           /\ pc' = IF got.raised THEN "failed"
                    ELSE IF got.value = EofToken THEN "done"
                    ELSE "decompress_loop"
           /\ outfile' = IF ~got.raised /\ got.value # EofToken
                         THEN outfile \o got.value
                         ELSE outfile
    /\ UNCHANGED <<input, symbolmodel, tokens, token_probs, huffman_tree, lut,
                   next_token, buffer, file, sent, readback>>

Next ==
    \/ Tokenize
    \/ CalcProbabilites
    \/ BuildTree
    \/ CompressOpen
    \/ CompressToken
    \/ DecompressOpen
    \/ DecompressToken

Spec == Init /\ [][Next]_vars

----------------------------------------------------------------------------
(* An OutputBitstream driven by any sequence of write calls and one        *)
(* write_eof call, and an InputBitstream reading the written file back.    *)

Chunks == SeqsUpTo({0, 1}, MaxChunk)

InitBitstream ==
    /\ pc = "writing"
    /\ input = <<>>
    /\ symbolmodel = "char"
    /\ tokens = <<>>
    /\ token_probs = <<>>
    /\ huffman_tree = <<>>
    /\ lut = EmptyLut
    /\ next_token = 0
    /\ buffer = <<>>
    /\ file = <<>>
    /\ rd_buffer = <<>>
    /\ bit_buffer = <<>>
    /\ outfile = <<>>
    /\ sent = <<>>
    /\ readback = <<>>

\* bitstream.write(bits)
BitstreamWrite ==
    /\ pc = "writing"
    /\ \E bits \in Chunks :
          /\ Len(sent) + Len(bits) <= MaxBits
          /\ LET wrote == write(buffer, file, bits)
             IN  /\ buffer' = wrote.buffer
                 /\ file' = wrote.file
          /\ sent' = sent \o bits
    /\ UNCHANGED <<pc, input, symbolmodel, tokens, token_probs, huffman_tree, lut,
                   next_token, rd_buffer, bit_buffer, outfile, readback>>

\* bitstream.write_eof(bits)
BitstreamWriteEof ==
    /\ pc = "writing"
    /\ \E bits \in Chunks :
          /\ Len(sent) + Len(bits) <= MaxBits
          /\ LET wrote == write_eof(buffer, file, bits)
             IN  /\ buffer' = wrote.buffer
                 /\ file' = wrote.file
          /\ sent' = sent \o bits
    /\ pc' = "written"
    /\ UNCHANGED <<input, symbolmodel, tokens, token_probs, huffman_tree, lut,
                   next_token, rd_buffer, bit_buffer, outfile, readback>>

\* InputBitstream(file): every byte of the file is taken
BitstreamOpen ==
    /\ pc = "written"
    /\ rd_buffer' = file
    /\ bit_buffer' = <<>>
    /\ pc' = "reading"
    /\ UNCHANGED <<input, symbolmodel, tokens, token_probs, huffman_tree, lut,
                   next_token, buffer, file, outfile, sent, readback>>

\* bitstream.popleft(), until it raises
BitstreamPopleft ==
    /\ pc = "reading"
    /\ LET got == popleft(rd_buffer, bit_buffer)
       IN  /\ rd_buffer' = got.buffer
           /\ bit_buffer' = got.bit_buffer
           /\ readback' = IF got.raised THEN readback ELSE Append(readback, got.bit)
           /\ pc' = IF got.raised THEN "exhausted" ELSE "reading"
    /\ UNCHANGED <<input, symbolmodel, tokens, token_probs, huffman_tree, lut,
                   next_token, buffer, file, outfile, sent>>

NextBitstream ==
    \/ BitstreamWrite
    \/ BitstreamWriteEof
    \/ BitstreamOpen
    \/ BitstreamPopleft

SpecBitstream == InitBitstream /\ [][NextBitstream]_vars

----------------------------------------------------------------------------
(* Claims on the bitstreams *)

RECURSIVE UnpackAll(_)
\* the bits of a byte sequence, each byte most significant bit first
UnpackAll(bytes) ==
    IF bytes = <<>> THEN <<>>
    ELSE UnpackByte(Head(bytes)) \o UnpackAll(Tail(bytes))

IsPrefix(s, t) == Len(s) <= Len(t) /\ SubSeq(t, 1, Len(s)) = s

CeilDiv8(n) == (n + 7) \div 8

\* C2: after write_eof the pending buffer is empty, exactly ceil(|B|/8) bytes
\* are written, and reading the file back with popleft until it is exhausted
\* yields B followed by fewer than 8 bits, all of them zero.
C2_WriteEofPadsToByteBoundary ==
    /\ pc \in {"written", "reading", "exhausted"} =>
          /\ buffer = <<>>
          /\ Len(file) = CeilDiv8(Len(sent))
    /\ pc = "exhausted" =>
          /\ IsPrefix(sent, readback)
          /\ Len(readback) - Len(sent) < 8
          /\ \A i \in (Len(sent) + 1)..Len(readback) : readback[i] = 0

\* C8: after every write call fewer than 8 bits are pending, and the bytes
\* written so far, unpacked most significant bit first, followed by the
\* pending bits are exactly the bits handed to write so far, in order.
C8_WriteKeepsEveryBit ==
    pc = "writing" =>
        /\ Len(buffer) < 8
        /\ UnpackAll(file) \o buffer = sent

\* C8 witness: write calls have written a byte whose high-order bit is the
\* first bit handed over, and left bits pending.
C8_Witness ==
    /\ pc = "writing"
    /\ Len(file) = 1
    /\ Len(buffer) = 2
    /\ sent[1] = 1
    /\ file[1] >= 128

----------------------------------------------------------------------------
(* Claims on one compress run followed by one decompress run *)

Range(s) == {s[i] : i \in 1..Len(s)}

Front(s) == SubSeq(s, 1, Len(s) - 1)

RECURSIVE Leaves(_)
\* the symbols at the leaves of a tree, left to right
Leaves(node) ==
    IF IsLeaf(node) THEN <<node.value>>
    ELSE Leaves(node.left) \o Leaves(node.right)

RECURSIVE WellFormed(_)
\* a leaf holds a symbol and nothing else, an internal node two subtrees
WellFormed(node) ==
    IF IsLeaf(node) THEN DOMAIN node = {"value"}
    ELSE /\ DOMAIN node = {"left", "right"}
         /\ WellFormed(node.left)
         /\ WellFormed(node.right)

RECURSIVE Walk(_, _)
\* the node a bit path leads to from node: 0 is left, 1 is right
Walk(node, bits) ==
    IF bits = <<>> THEN node
    ELSE IF IsLeaf(node) THEN <<>>
    ELSE Walk(IF Head(bits) = 0 THEN node.left ELSE node.right, Tail(bits))

RECURSIVE Encode(_, _)
\* the codes of a token sequence, one after the other
Encode(toks, table) ==
    IF toks = <<>> THEN <<>> ELSE table[Head(toks)] \o Encode(Tail(toks), table)

Occurrences(symbol) == Cardinality({i \in 1..Len(tokens) : tokens[i] = symbol})

RECURSIVE WeightedDepth(_, _)
\* sum over the leaves of count(symbol) times leaf depth
WeightedDepth(node, depth) ==
    IF IsLeaf(node) THEN Occurrences(node.value) * depth
    ELSE WeightedDepth(node.left, depth + 1) + WeightedDepth(node.right, depth + 1)

RECURSIVE AllTrees(_)
\* every binary tree whose leaves hold exactly the symbols of S, once each,
\* up to exchanging the two children of a node (which changes no depth): the
\* left subtree is the one that holds the symbol CHOOSE picks from S
AllTrees(S) ==
    IF Cardinality(S) = 1 THEN {HNodeLeaf(CHOOSE x \in S : TRUE)}
    ELSE LET pick == CHOOSE x \in S : TRUE
         IN  UNION {{HNode(l, r) : l \in AllTrees(A \cup {pick}),
                                   r \in AllTrees(S \ (A \cup {pick}))} :
                        A \in (SUBSET (S \ {pick})) \ {S \ {pick}}}

IsWord(t) == Len(t) >= 1 /\ \A j \in 1..Len(t) : IsAlpha(t[j])

IsSingleNonAlpha(t) == Len(t) = 1 /\ t[1] >= 0 /\ ~IsAlpha(t[1])

\* C1: compress then decompress ends at the sentinel and yields the input.
C1_RoundTrip ==
    pc \in {"done", "failed"} => pc = "done" /\ outfile = input

\* C4: no symbol's code is a prefix of another symbol's code, each code being
\* the root-to-leaf path of its symbol with 0 for left and 1 for right.
C4_PrefixFree ==
    pc = "compress_loop" =>
        /\ DOMAIN lut = Range(Leaves(huffman_tree))
        /\ \A s \in DOMAIN lut : Walk(huffman_tree, lut[s]) = HNodeLeaf(s)
        /\ \A s1, s2 \in DOMAIN lut : s1 # s2 => ~IsPrefix(lut[s1], lut[s2])

\* C4 witness: a code table with codes of several lengths.
C4_Witness ==
    /\ pc = "compress_loop"
    /\ \E s1, s2 \in DOMAIN lut : Len(lut[s1]) = 1 /\ Len(lut[s2]) = 3

\* C5: the built tree's sum of count(symbol) times leaf depth is at most
\* that of every binary tree with the same symbols at its leaves.
C5_Optimal ==
    pc = "compress" =>
        \A other \in AllTrees(Range(tokens)) :
            WeightedDepth(huffman_tree, 0) <= WeightedDepth(other, 0)

\* C5 witness: a tree over four symbols of unequal counts has been built.
C5_Witness ==
    /\ pc = "compress"
    /\ Cardinality(Range(tokens)) = 4
    /\ \E s \in Range(tokens) : Occurrences(s) = 3

\* C6: in word mode the tokens before the sentinel concatenate to the input,
\* each is a run of alphabetic characters not followed by another such run
\* or a single non-alphabetic character, and the one sentinel is the last.
C6_WordTokensPartitionInput ==
    (symbolmodel = "word" /\ pc # "tokenize") =>
        LET n == Len(tokens)
        IN  /\ n >= 1
            /\ tokens[n] = EofToken
            /\ \A i \in 1..(n - 1) : tokens[i] # EofToken
            /\ Join(Front(tokens)) = input
            /\ \A i \in 1..(n - 1) : IsWord(tokens[i]) \/ IsSingleNonAlpha(tokens[i])
            /\ \A i \in 1..(n - 2) : ~(IsWord(tokens[i]) /\ IsWord(tokens[i + 1]))

\* C6 witness: "aZ a!" tokenized to "aZ", " ", "a", "!" and the sentinel.
C6_Witness ==
    /\ symbolmodel = "word"
    /\ pc = "calc_probabilites"
    /\ tokens = << <<97, 90>>, <<32>>, <<97>>, <<33>>, EofToken >>

\* C7: the tree has one leaf per distinct symbol of the token sequence, each
\* symbol at exactly one leaf, and every internal node has two children.
C7_OneLeafPerSymbol ==
    pc = "compress" =>
        /\ Len(Leaves(huffman_tree)) = Cardinality(Range(tokens))
        /\ Range(Leaves(huffman_tree)) = Range(tokens)
        /\ WellFormed(huffman_tree)

\* C7 witness: a tree built from a token sequence with repeated symbols.
C7_Witness ==
    /\ pc = "compress"
    /\ Cardinality(Range(tokens)) = 4
    /\ Len(tokens) = 6

\* total number of code bits of the token sequence, sentinel included
TotalBits == Len(Encode(tokens, lut))

\* C10: with T the total number of code bits, the round trip succeeds
\* exactly when T mod 8 is 0, 4, 5, 6 or 7; when it is 1, 2 or 3 the last
\* T mod 8 code bits stay pending and unwritten and the decoder exhausts its
\* input before the sentinel.
C10_OutcomeByTotalBits ==
    /\ pc \in {"compressed", "decompress_loop", "done", "failed"} =>
          LET code == Encode(tokens, lut)
              r == Len(code) % 8
          IN  IF r \in {1, 2, 3}
              THEN /\ UnpackAll(file) = SubSeq(code, 1, Len(code) - r)
                   /\ SubSeq(buffer, 1, r) = SubSeq(code, Len(code) - r + 1, Len(code))
                   /\ pc # "done"
              ELSE /\ IsPrefix(code, UnpackAll(file))
                   /\ pc # "failed"
    /\ pc = "done" => outfile = Join(Front(tokens))
    /\ pc = "failed" => rd_buffer = <<>> /\ bit_buffer = <<>>

\* C10 witness: a run of 11 code bits whose last 3 were never written and
\* whose decoding failed.
C10_Witness ==
    /\ pc = "failed"
    /\ TotalBits = 11
    /\ Len(file) = 1
    /\ Len(buffer) = 6

----------------------------------------------------------------------------
(* One run of huff-decompress.py on a tree and code table built by         *)
(* huff-compress.py and a compressed file that holds the codes of the      *)
(* tokens and of the sentinel followed by any bits up to the byte          *)
(* boundary, whole or cut short after any number of bytes.                 *)

\* the bit sequences of length n
BitsOfLen(n) == {b \in SeqsUpTo({0, 1}, n) : Len(b) = n}

\* the bytes of a bit sequence whose length is a multiple of 8
BytesOf(bits) ==
    [i \in 1..(Len(bits) \div 8) |-> PackByte(0, SubSeq(bits, 8 * i - 7, 8 * i))]

InitDecoder ==
    /\ pc = "tokenize"
    /\ input \in Texts
    /\ symbolmodel \in {"char", "word"}
    /\ tokens = <<>>
    /\ token_probs = <<>>
    /\ huffman_tree = <<>>
    /\ lut = EmptyLut
    /\ next_token = 0
    /\ buffer = <<>>
    /\ file = <<>>
    /\ rd_buffer = <<>>
    /\ bit_buffer = <<>>
    /\ outfile = <<>>
    /\ sent = <<>>
    /\ readback = <<>>

\* the compressed file handed to huff-decompress.py, in place of the one
\* compress's loop writes
CompressedFileGiven ==
    /\ pc = "compress_loop"
    /\ LET code == Encode(tokens, lut)
       IN  \E tail \in BitsOfLen((8 - (Len(code) % 8)) % 8) :
               \E kept \in 0..((Len(code) + Len(tail)) \div 8) :
                   file' = SubSeq(BytesOf(code \o tail), 1, kept)
    /\ next_token' = Len(tokens)
    /\ pc' = "compressed"
    /\ UNCHANGED <<input, symbolmodel, tokens, token_probs, huffman_tree, lut,
                   buffer, rd_buffer, bit_buffer, outfile, sent, readback>>

NextDecoder ==
    \/ Tokenize
    \/ CalcProbabilites
    \/ BuildTree
    \/ CompressOpen
    \/ CompressedFileGiven
    \/ DecompressOpen
    \/ DecompressToken

SpecDecoder == InitDecoder /\ [][NextDecoder]_vars

\* number of bits the decoder has taken from the InputBitstream
Consumed == 8 * (Len(file) - Len(rd_buffer)) - Len(bit_buffer)

\* number of code bits of the first k tokens
CodeBits(k) == Len(Encode(SubSeq(tokens, 1, k), lut))

\* the file holds the whole code of the token sequence, sentinel included
Complete == 8 * Len(file) >= TotalBits

\* C3: on a bit source that begins with the codes of t1..tn and of the
\* sentinel, the decoder emits t1..tn in order, one per descent from the
\* root, stops at the sentinel without emitting it, and takes no bit after
\* the sentinel's code.
C3_DecoderStopsAtSentinel ==
    (pc \in {"decompress_loop", "done", "failed"} /\ Complete) =>
        /\ pc # "failed"
        /\ \E k \in 0..(Len(tokens) - 1) :
               /\ outfile = Join(SubSeq(tokens, 1, k))
               /\ Consumed = CodeBits(IF pc = "done" THEN k + 1 ELSE k)
               /\ pc = "done" => k = Len(tokens) - 1

\* C3 witness: the decoder stopped at the sentinel after emitting tokens,
\* with a one bit right after the sentinel's code left untaken.
C3_Witness ==
    /\ pc = "done"
    /\ Len(tokens) >= 4
    /\ Consumed < 8 * Len(file)
    /\ UnpackAll(file)[TotalBits + 1] = 1

\* C9: when the bit source ends before the sentinel's code does, the run
\* never ends at the sentinel; it fails on the exhausted source, having
\* emitted the tokens whose codes are whole and nothing for the last,
\* incomplete descent.
C9_TruncatedStreamFails ==
    (pc \in {"decompress_loop", "done", "failed"} /\ ~Complete) =>
        /\ pc # "done"
        /\ \E k \in 0..(Len(tokens) - 1) :
               /\ outfile = Join(SubSeq(tokens, 1, k))
               /\ CodeBits(k) <= 8 * Len(file)
               /\ pc = "decompress_loop" => Consumed = CodeBits(k)
               /\ pc = "failed" =>
                     /\ CodeBits(k + 1) > 8 * Len(file)
                     /\ rd_buffer = <<>>
                     /\ bit_buffer = <<>>

\* C9 witness: a file cut in the middle of a code failed after the decoder
\* had emitted tokens.
C9_Witness ==
    /\ pc = "failed"
    /\ ~Complete
    /\ outfile # <<>>
    /\ \A k \in 0..Len(tokens) : CodeBits(k) # 8 * Len(file)

====
